---- MODULE Spec2Model ----
(***************************************************************************)
(* Build-and-package pipeline of the noventa repository.                   *)
(*                                                                         *)
(* Two build scripts are modelled, chosen in Init:                         *)
(*   "build.py"        src/build.py        (macos, linux, windows)         *)
(*   "build/build.py"  src/build/build.py  (five platform/arch targets)    *)
(* A run is one execution of the script's __main__ block.  Every external  *)
(* command is one step whose return code is chosen by the environment.     *)
(* Filesystem calls made by build_rust_framework itself (os.makedirs,      *)
(* shutil.copy of the compiled binary) are taken to succeed; the calls     *)
(* inside package_wheel's try block may raise.                             *)
(***************************************************************************)
EXTENDS Integers, Sequences, FiniteSets, TLC

VARIABLES
    script,      \* which build script runs
    darwin,      \* sys.platform == "darwin"
    pc,          \* position of the run inside the script
    plat,        \* index of the current platform in Platforms
    exited,      \* the interpreter has terminated
    exitCode,    \* its exit status once exited
    completed,   \* "Build process completed successfully!" was printed
    lastStrict,  \* the last run_command invocation and its return code
    ncalls,      \* number of external commands started so far
    compiled,    \* per platform: outcome of its compiler run
    binary,      \* per platform: whether the expected binary was there
    job,         \* per platform: how far its job got
    chain,       \* per platform: packaging-tool invocations, in order
    report,      \* per platform: which success/failure message was printed
    fs,          \* directories that exist below the output directory
    staged,      \* per platform: assembly steps performed in the staged package
    lib,         \* per platform: result of the runtime-library lookup
    aux,         \* number of extension-packaging commands that returned 0
    phases,      \* per platform: the steps of its job, in the order they started
    warned,      \* per platform: warnings printed for it
    tagw,        \* per platform: plat_name written into the staged setup.cfg
    environ,     \* os.environ of the build script
    environ0,    \* os.environ as it was when the run started
    childEnv,    \* per platform: environment its compiler process received
    patchlog,    \* outcome of otool and of the two install_name_tool calls
    lastChmod,   \* the last os.chmod of a staged binary: platform and outcome
    lookup,      \* a runtime-library lookup studied on its own: inputs and result
    macho,       \* a macOS binary studied on its own: load commands and patch count
    cli,         \* one invocation of the noventa command: inputs and result
    pipe,        \* one run_command call seen with its child process and pipes
    ctr          \* the counter components: stored counts and handler calls

\* the programs of the repository other than the build scripts
appVars == <<cli, pipe, ctr>>

\* variables no step of a run writes
fnVars == <<lookup, macho, appVars>>

frozen == <<environ, environ0>>

\* logs written by few steps
logVars == <<phases, warned, tagw, childEnv, patchlog, lastChmod>>

vars == <<script, darwin, pc, plat, exited, exitCode, completed, lastStrict,
          ncalls, compiled, binary, job, chain, report, fs, staged, lib, aux,
          phases, warned, tagw, environ, environ0, childEnv, patchlog, lastChmod,
          lookup, macho, cli, pipe, ctr>>

----------------------------------------------------------------------------
(* Bounds *)

\* largest exit code an external command returns in the model
MaxExit == 2

\* longest DYLD_LIBRARY_PATH (number of directories) considered
MaxPath == 2

\* most load commands naming a dependency in a binary under patch
MaxDeps == 2

\* most times the patch sequence is applied to one binary
MaxPatch == 2

----------------------------------------------------------------------------
(* Static data *)

ScriptA == "build.py"
ScriptB == "build/build.py"
Scripts == {ScriptA, ScriptB}

\* Popen.returncode: 0..MaxExit on a normal exit, negative when the shell
\* was killed by a signal.
ReturnCodes == (0 .. MaxExit) \cup {0 - 9}

PlatformsOf(s, d) ==
    IF s = ScriptB
    THEN IF d THEN <<"macos-arm64", "macos-x86_64", "linux", "linux-aarch64", "windows-amd64">>
              ELSE <<"linux", "linux-aarch64", "windows-amd64">>
    ELSE IF d THEN <<"macos", "linux", "windows">>
              ELSE <<"linux", "windows">>

Platforms == PlatformsOf(script, darwin)

AllPlatforms == {"macos-arm64", "macos-x86_64", "linux", "linux-aarch64",
                 "windows-amd64", "macos", "windows"}

Cur == Platforms[plat]

get_platform_tag(p) ==
    CASE p = "macos-arm64"   -> "macosx_11_0_arm64"
      [] p = "macos-x86_64"  -> "macosx_10_9_x86_64"
      [] p = "linux"         -> "manylinux1_x86_64"
      [] p = "linux-aarch64" -> "manylinux2014_aarch64"
      [] p = "windows-amd64" -> "win_amd64"
      [] OTHER               -> "None"

----------------------------------------------------------------------------
(* Directories *)

PlatformDir(p) == [d |-> "platform", p |-> p]
BuildDir(p)    == [d |-> "build", p |-> p]
PkgDir(p)      == [d |-> "pkg", p |-> p]
BinDir(p)      == [d |-> "bin", p |-> p]

\* the working directory package_wheel makes for a job
TempDir(s, p) == IF s = ScriptB THEN BuildDir(p) ELSE PlatformDir(p)

Parent(s, x) ==
    CASE x.d = "pkg" -> TempDir(s, x.p)
      [] x.d = "bin" -> PlatformDir(x.p)
      [] OTHER       -> [d |-> "out", p |-> "out"]

Rmtree(S, s, dir) == {x \in S : x # dir /\ Parent(s, x) # dir}

----------------------------------------------------------------------------
(* External commands *)

ExitStatus(rc) == rc % 256

\* variant: every failure exits with status 1
run_command_exit1(rc) == [exits |-> rc # 0, status |-> 1]

\* variant: the return code is not checked
run_command_unchecked(rc) == [exits |-> FALSE, status |-> 0]

\* the interpreter exits, with the command's status, iff the return code is non-zero
run_command(rc) == [exits |-> rc # 0, status |-> ExitStatus(rc)]

\* variant: a failing command ends the run
run_command_allow_fail_exits(rc) == [exits |-> rc # 0, status |-> ExitStatus(rc), rc |-> rc]

\* the return code is handed back to the caller, whatever it is
run_command_allow_fail(rc) == [exits |-> FALSE, status |-> 0, rc |-> rc]

----------------------------------------------------------------------------
(* Runtime-library lookup *)

PathLists == UNION {[1 .. n -> BOOLEAN] : n \in 0 .. MaxPath}

RECURSIVE ScanDyld(_, _, _)
ScanDyld(dyld, i, libDirHas) ==
    IF i > Len(dyld)
    THEN IF libDirHas THEN [r |-> "found", at |-> 0] ELSE [r |-> "none", at |-> 0]
    ELSE IF dyld[i] THEN [r |-> "found", at |-> i]
                    ELSE [r |-> "exit", at |-> i]

\* dyld[i] is TRUE when the i-th directory of DYLD_LIBRARY_PATH holds the library
find_libpython_path(versionOk, dyld, libDirOk, libDirHas) ==
    IF ~versionOk THEN [r |-> "none", at |-> 0]
    ELSE IF dyld = <<>> THEN [r |-> "exit", at |-> 0]
    ELSE LET res == ScanDyld(dyld, 1, libDirHas)
         IN  IF res.at = 0 /\ ~libDirOk THEN [r |-> "none", at |-> 0] ELSE res

find_python_dll_path(inPythonDir, inExecutableDir) ==
    IF inPythonDir THEN "found"
    ELSE IF inExecutableDir THEN "found" ELSE "none"

get_platform_lib_path(p, exists) ==
    IF get_platform_tag(p) = "None" THEN "none"
    ELSE IF exists THEN "found" ELSE "none"

\* variant: package_wheel is always handed a library path
DllArgAlways(p) == "found"

\* dll_path argument package_wheel receives for platform p
DllArg(p) == IF script = ScriptA /\ p = "macos" THEN "none" ELSE lib[p]

\* whether a lookup with result r printed a warning: every branch returning
\* None prints, except the unknown-platform branch of get_platform_lib_path
LookupWarns(s, p, r) ==
    r = "none" /\ (s = ScriptB => get_platform_tag(p) # "None")

----------------------------------------------------------------------------
(* Patch of the macOS binary *)

\* file names f"libpython{version}.dylib"
LibNames == {"libpython3.10.dylib", "libpython3.11.dylib"}

NoPath == [dir |-> <<>>, name |-> "none"]

\* install names a linked binary may record: dir is os.path.dirname as a
\* list of components, name is os.path.basename
DepEntries ==
    {[dir |-> <<"/usr/lib">>, name |-> "libSystem.B.dylib"],
     [dir |-> <<"/a">>, name |-> "libpython3.10.dylib"],
     [dir |-> <<"/b">>, name |-> "libpython3.11.dylib"],
     [dir |-> <<"@rpath">>, name |-> "libpython3.10.dylib"]}

DepLists == UNION {[1 .. n -> DepEntries] : n \in 1 .. MaxDeps}

RpathDirs == {<<"/a">>, <<"@loader_path">>}

\* grep libpython on a line of otool -L
Matches(e) == e.name \in LibNames

\* otool -L | grep libpython, stdout.strip().split(" ")[0]: the install name
\* of the first matching line (its index, 0 when grep matched nothing)
otool(deps) ==
    LET M == {i \in 1 .. Len(deps) : Matches(deps[i])}
    IN  IF M = {} THEN 0 ELSE CHOOSE i \in M : \A j \in M : i <= j

\* variant: @loader_path is put in front of the original path
new_lib_path_prefixed(orig, libname) ==
    [dir |-> <<"@loader_path">> \o orig.dir, name |-> orig.name]

\* f"@loader_path/{os.path.basename(libpython_path)}"
new_lib_path(orig, libname) == [dir |-> <<"@loader_path">>, name |-> libname]

\* install_name_tool -change old new: every dependency named old is renamed
Change(deps, old, new) ==
    [i \in 1 .. Len(deps) |-> IF deps[i] = old THEN new ELSE deps[i]]

\* install_name_tool -delete_rpath dirname(old); no such rpath is an error
\* that run_command_allow_fail ignores
DeleteRpathOf(rpaths, old) == rpaths \ {old.dir}

\* one application of the patch sequence to binary b; changeOk tells whether
\* install_name_tool -change returned 0 (otherwise the run ends there)
Patch(b, changeOk) ==
    LET k == otool(b.deps)
    IN  IF k = 0
        THEN [b EXCEPT !.n = @ + 1, !.prev = b.deps, !.old = NoPath, !.new = NoPath]
        ELSE LET old == b.deps[k]
                 new == new_lib_path(old, b.libname)
             IN  IF changeOk
                 THEN [b EXCEPT !.n = @ + 1, !.prev = b.deps, !.old = old, !.new = new,
                                !.deps = Change(b.deps, old, new),
                                !.rpaths = DeleteRpathOf(b.rpaths, old)]
                 ELSE [b EXCEPT !.n = @ + 1, !.prev = b.deps, !.old = old, !.new = new,
                                !.stopped = TRUE]

\* binaries as the linker leaves them, not yet patched
BinaryInputs ==
    {[deps |-> d, rpaths |-> r, libname |-> l, n |-> 0, prev |-> d,
      old |-> NoPath, new |-> NoPath, stopped |-> FALSE] :
        d \in DepLists, r \in SUBSET RpathDirs, l \in LibNames}

----------------------------------------------------------------------------
(* Environment of the compiler processes *)

\* environments the run may start in; DYLD is the list of directories of
\* DYLD_LIBRARY_PATH (empty: unset), each TRUE when it holds libpython.
\* DYLD_LIBRARY_PATH is a variable of macOS hosts: build.py reads it there
\* only, where a run starts with it unset or naming one directory (longer
\* lists are studied on the lookup alone); for build/build.py a macOS host
\* has it and RUSTFLAGS set by the user, any other host has neither.
EnvChoices(s, dw) ==
    IF s = ScriptA
    THEN {[RUSTFLAGS |-> "unset", DYLD |-> d, PYO3 |-> "unset"] :
             d \in IF dw THEN {<<>>, <<TRUE>>, <<FALSE>>} ELSE {<<>>}}
    ELSE IF dw
    THEN {[RUSTFLAGS |-> "user", DYLD |-> <<TRUE>>, PYO3 |-> "unset"]}
    ELSE {[RUSTFLAGS |-> "unset", DYLD |-> <<>>, PYO3 |-> "unset"]}

NoEnv == [RUSTFLAGS |-> "n/a", DYLD |-> <<>>, PYO3 |-> "n/a"]

\* the environment of platform p's compiler process, made from the script's
\* environment e (RUSTFLAGS "-L libs/<p>" is written as p)
CompileEnv(s, p, e) ==
    IF s = ScriptA THEN [e EXCEPT !.PYO3 = "1"]
    ELSE CASE p = "linux"         -> [e EXCEPT !.DYLD = <<>>]
           [] p = "linux-aarch64" -> [e EXCEPT !.DYLD = <<>>, !.RUSTFLAGS = p]
           [] OTHER               -> [e EXCEPT !.RUSTFLAGS = p, !.PYO3 = "1"]

\* variant: env is os.environ itself
EnvAfterAliased(orig, child) == child

\* os.environ after the child's environment was prepared: env is a copy
EnvAfter(orig, child) == orig

----------------------------------------------------------------------------
(* Initial state *)

\* no lookup under study
NoLookup ==
    [f |-> "none", versionOk |-> FALSE, dyld |-> <<>>, libDirOk |-> FALSE,
     libDirHas |-> FALSE, inPythonDir |-> FALSE, inExecutableDir |-> FALSE,
     r |-> "none", at |-> 0]

\* no binary under study
NoBinary ==
    [deps |-> <<>>, rpaths |-> {}, libname |-> "none", n |-> 0, prev |-> <<>>,
     old |-> NoPath, new |-> NoPath, stopped |-> TRUE]

\* the noventa command not invoked
NoCli ==
    [state |-> "none", argv |-> <<>>, locateOk |-> FALSE, launchOk |-> FALSE,
     rc |-> 0, cmd |-> <<>>, status |-> 0]

\* no run_command call under study
NoPipe ==
    [state |-> "none", prog |-> <<>>, rc |-> 0, at |-> 1, alive |-> FALSE,
     out |-> 0, err |-> 0, ppc |-> "done", gotOut |-> FALSE, gotErr |-> FALSE,
     printed |-> 0, status |-> 0]

\* no counter component loaded
NoCtr ==
    [state |-> "none", count |-> 0, row |-> <<>>, incs |-> 0, decs |-> 0,
     calls |-> 0, last |-> "none", db |-> FALSE, before |-> 0,
     rowBefore |-> <<>>, result |-> [kind |-> "none", count |-> 0]]

\* none of the other programs is in use
NoApp == cli = NoCli /\ pipe = NoPipe /\ ctr = NoCtr

\* the macOS binary not inspected, nothing rewritten or removed
NoPatch == [otool |-> "none", change |-> "none", rpath |-> "none"]

\* no os.chmod done yet
NoChmod == [plat |-> "none", ok |-> TRUE]

NoCall == [cmd |-> "none", plat |-> "none", rc |-> 0, n |-> 0]

\* directories a previous run may have left below the output directory
StaleDirs == {PlatformDir("linux"), BuildDir("linux"), PkgDir("linux")}

Init ==
    /\ script \in Scripts
    /\ darwin \in BOOLEAN
    /\ pc = "start"
    /\ plat = 1
    /\ exited = FALSE
    /\ exitCode = 0
    /\ completed = FALSE
    /\ lastStrict = NoCall
    /\ ncalls = 0
    /\ compiled = [p \in AllPlatforms |-> "no"]
    /\ binary = [p \in AllPlatforms |-> "unknown"]
    /\ job = [p \in AllPlatforms |-> "pending"]
    /\ chain = [p \in AllPlatforms |-> <<>>]
    /\ report = [p \in AllPlatforms |-> "none"]
    /\ fs \in {{}, StaleDirs}
    /\ staged = [p \in AllPlatforms |-> {}]
    /\ lib = [p \in AllPlatforms |-> "none"]
    /\ aux = 0
    /\ phases = [p \in AllPlatforms |-> <<>>]
    /\ warned = [p \in AllPlatforms |-> {}]
    /\ tagw = [p \in AllPlatforms |-> "None"]
    /\ environ \in EnvChoices(script, darwin)
    /\ environ0 = environ
    /\ childEnv = [p \in AllPlatforms |-> NoEnv]
    /\ patchlog = NoPatch
    /\ lastChmod = NoChmod
    /\ lookup = NoLookup
    /\ macho = NoBinary
    /\ NoApp

----------------------------------------------------------------------------
(* Control-flow fragments *)

Running(step) == ~exited /\ pc = step

Goto(step) ==
    /\ pc' = step
    /\ plat' = plat
    /\ exited' = FALSE
    /\ exitCode' = exitCode

\* the interpreter terminates with status c (exit(), sys.exit() or traceback)
Exit(c) ==
    /\ exited' = TRUE
    /\ exitCode' = c
    /\ pc' = pc
    /\ plat' = plat

\* variant: the extension is packaged as soon as the first job is over
AdvanceEarlyAux ==
    /\ exited' = FALSE
    /\ exitCode' = exitCode
    /\ plat' = plat
    /\ pc' = "npm"

\* build_rust_framework moves on to the next platform block, or returns
Advance ==
    /\ exited' = FALSE
    /\ exitCode' = exitCode
    /\ IF plat < Len(Platforms)
       THEN plat' = plat + 1 /\ pc' = "compile"
       ELSE plat' = plat /\ pc' = "npm"

\* a strict invocation by the current step
Strict(cmd, p, rc) ==
    /\ lastStrict' = [cmd |-> cmd, plat |-> p, rc |-> rc, n |-> ncalls + 1]
    /\ ncalls' = ncalls + 1

\* package_wheel is left: the except clause of build.py swallows an
\* exception; the finally clause of build/build.py removes the temporary
\* build directory and lets the exception propagate to the top level.
LeavesRun(s, raised) == s = ScriptB /\ raised

CleansTemp(s) == s = ScriptB

PackageWheelExit(raised, result, dirs) ==
    /\ job' = [job EXCEPT ![Cur] = result]
    /\ fs' = IF CleansTemp(script) THEN Rmtree(dirs, script, TempDir(script, Cur)) ELSE dirs
    /\ IF LeavesRun(script, raised) THEN Exit(1) ELSE Advance

----------------------------------------------------------------------------
(* __main__ and build_rust_framework *)

\* the output directory is removed if present and created afresh
Start ==
    /\ Running("start")
    /\ fs' = {}
    /\ Goto("compile")
    /\ UNCHANGED <<fnVars, frozen, logVars, script, darwin, completed, lastStrict, ncalls, compiled, binary, job, chain,
                   report, staged, lib, aux>>

\* the compiler is run for the current platform; on success the platform's
\* output directory is made
Compile ==
    /\ Running("compile")
    /\ \E rc \in ReturnCodes :
         /\ Strict("compile", Cur, rc)
         /\ compiled' = [compiled EXCEPT ![Cur] = IF rc = 0 THEN "ok" ELSE "failed"]
         /\ IF run_command(rc).exits
            THEN /\ Exit(run_command(rc).status)
                 /\ fs' = fs
            ELSE /\ Goto("checkbin")
                 /\ fs' = fs \cup {PlatformDir(Cur)}
                             \cup (IF script = ScriptA /\ Cur = "macos"
                                   THEN {BinDir(Cur)} ELSE {})
    /\ phases' = [phases EXCEPT ![Cur] = Append(@, "compile")]
    /\ LET child == CompileEnv(script, Cur, environ)
       IN  /\ childEnv' = [childEnv EXCEPT ![Cur] = child]
           /\ environ' = EnvAfter(environ, child)
    /\ UNCHANGED <<fnVars, environ0, warned, tagw, patchlog, lastChmod, script, darwin, completed, binary, job, chain, report,
                   staged, lib, aux>>

\* variant: the existence check is dropped
PackagesBinaryAlways(exists) == TRUE

\* os.path.exists(binary_src) decides whether the platform is packaged
PackagesBinary(exists) == exists

\* variant: the macOS binary is patched before the library is looked up
AfterCopyPatchFirst(s, p) ==
    IF s = ScriptA /\ p = "linux" THEN "pw_enter"
    ELSE IF s = ScriptA /\ p = "macos" THEN "otool" ELSE "locate"

\* the step that follows the copy of the binary: the library lookup, except
\* in the linux block of build.py, which packages without one
AfterCopy(s, p) ==
    IF s = ScriptA /\ p = "linux" THEN "pw_enter" ELSE "locate"

CheckBinary ==
    /\ Running("checkbin")
    /\ \E exists \in BOOLEAN :
         /\ binary' = [binary EXCEPT ![Cur] = IF exists THEN "present" ELSE "missing"]
         /\ warned' = [warned EXCEPT ![Cur] = @ \cup (IF PackagesBinary(exists)
                                                     THEN {} ELSE {"binary"})]
         /\ IF PackagesBinary(exists)
            THEN /\ Goto(AfterCopy(script, Cur))
                 /\ job' = [job EXCEPT ![Cur] = "copied"]
            ELSE /\ Advance
                 /\ job' = [job EXCEPT ![Cur] = "skipped"]
    /\ UNCHANGED <<fnVars, frozen, phases, tagw, childEnv, patchlog, lastChmod, script, darwin, completed, lastStrict, ncalls, compiled, chain,
                   report, fs, staged, lib, aux>>

\* the runtime library of the current platform is looked up
Locate ==
    /\ Running("locate")
    /\ IF script = ScriptB
       THEN \E exists \in BOOLEAN :
              /\ lib' = [lib EXCEPT ![Cur] = get_platform_lib_path(Cur, exists)]
              /\ Goto("pw_enter")
              /\ ncalls' = ncalls
       ELSE IF Cur = "windows"
       THEN \E a \in BOOLEAN, b \in BOOLEAN :
              /\ lib' = [lib EXCEPT ![Cur] = find_python_dll_path(a, b)]
              /\ Goto("pw_enter")
              /\ ncalls' = ncalls
       ELSE \E v \in BOOLEAN, ok \in BOOLEAN, has \in BOOLEAN :
              LET res == find_libpython_path(v, environ.DYLD, ok, has)
              IN  /\ lib' = [lib EXCEPT ![Cur] = res.r]
                  /\ ncalls' = ncalls + 1
                  /\ CASE res.r = "exit"  -> Exit(1)
                       [] res.r = "found" -> Goto("otool")
                       [] OTHER           -> Goto("pw_enter")
    /\ phases' = [phases EXCEPT ![Cur] = Append(@, "locate")]
    /\ warned' = [warned EXCEPT ![Cur] = @ \cup (IF LookupWarns(script, Cur, lib'[Cur])
                                                THEN {"library"} ELSE {})]
    /\ UNCHANGED <<fnVars, frozen, tagw, childEnv, patchlog, lastChmod, script, darwin, completed, lastStrict, compiled, binary, job, chain, report,
                   fs, staged, aux>>

\* variant: the result of otool is not looked at
MatchedAlways(out) == TRUE

\* otool_proc.returncode == 0 and otool_proc.stdout; subprocess.run raising
\* is caught by the except clause
Matched(out) == out = "match"

\* otool -L | grep libpython on the copied macOS binary
Otool ==
    /\ Running("otool")
    /\ \E out \in {"match", "nomatch", "error"} :
         /\ Goto(IF Matched(out) THEN "rewrite" ELSE "pw_enter")
         /\ patchlog' = [patchlog EXCEPT !.otool = out]
         /\ warned' = [warned EXCEPT ![Cur] = @ \cup (IF Matched(out) THEN {}
                                                     ELSE {"otool"})]
    /\ ncalls' = ncalls + 1
    /\ phases' = [phases EXCEPT ![Cur] = Append(@, "patch")]
    /\ UNCHANGED <<fnVars, frozen, tagw, childEnv, lastChmod, script, darwin, completed, lastStrict, compiled, binary, job, chain, report,
                   fs, staged, lib, aux>>

\* install_name_tool -change, inside try/except Exception
Rewrite ==
    /\ Running("rewrite")
    /\ \E rc \in ReturnCodes :
         /\ Strict("install_name_tool", Cur, rc)
         /\ patchlog' = [patchlog EXCEPT !.change = IF rc = 0 THEN "ok" ELSE "failed"]
         /\ IF run_command(rc).exits
            THEN /\ Exit(run_command(rc).status)
                 /\ job' = [job EXCEPT ![Cur] = "patch_failed"]
            ELSE /\ Goto("rpath")
                 /\ job' = job
    /\ UNCHANGED <<fnVars, frozen, phases, warned, tagw, childEnv, lastChmod, script, darwin, completed, compiled, binary, chain, report,
                   fs, staged, lib, aux>>

\* install_name_tool -delete_rpath, return code ignored
DeleteRpath ==
    /\ Running("rpath")
    /\ \E rc \in ReturnCodes :
         /\ patchlog' = [patchlog EXCEPT !.rpath = IF rc = 0 THEN "ok" ELSE "failed"]
         /\ IF run_command_allow_fail(rc).exits
            THEN Exit(run_command_allow_fail(rc).status)
            ELSE Goto("pw_enter")
    /\ ncalls' = ncalls + 1
    /\ UNCHANGED <<fnVars, frozen, phases, warned, tagw, childEnv, lastChmod, script, darwin, completed, lastStrict, compiled, binary, job, chain, report,
                   fs, staged, lib, aux>>

----------------------------------------------------------------------------
(* package_wheel: assembly of the staged package *)

\* os.makedirs of the job's working directory, before the try block
PwEnter ==
    /\ Running("pw_enter")
    /\ fs' = fs \cup {TempDir(script, Cur)}
    /\ job' = [job EXCEPT ![Cur] = "packaging"]
    /\ Goto("template")
    /\ phases' = [phases EXCEPT ![Cur] = Append(@, "assemble")]
    /\ UNCHANGED <<fnVars, frozen, warned, tagw, childEnv, patchlog, lastChmod, script, darwin, completed, lastStrict, ncalls, compiled, binary, chain,
                   report, staged, lib, aux>>

\* an assembly step that raised: nothing more is staged and package_wheel is left
Raised(dirs) ==
    /\ PackageWheelExit(TRUE, "abandoned", dirs)
    /\ staged' = staged

Done(step) == staged' = [staged EXCEPT ![Cur] = @ \cup {step}]

\* shutil.copytree of the package template; a failed copy may leave the
\* destination directory behind
CopyTemplate ==
    /\ Running("template")
    /\ \E ok \in BOOLEAN, partial \in BOOLEAN :
         IF ok
         THEN /\ Done("template")
              /\ fs' = fs \cup {PkgDir(Cur)}
              /\ job' = job
              /\ Goto(IF script = ScriptB THEN "tag" ELSE "binary")
         ELSE Raised(IF partial THEN fs \cup {PkgDir(Cur)} ELSE fs)
    /\ UNCHANGED <<fnVars, frozen, logVars, script, darwin, completed, lastStrict, ncalls, compiled, binary, chain,
                   report, lib, aux>>

\* setup.cfg with the platform tag (build/build.py only)
WriteTag ==
    /\ Running("tag")
    /\ \E ok \in BOOLEAN :
         IF get_platform_tag(Cur) = "None"
         THEN /\ staged' = staged /\ fs' = fs /\ job' = job /\ Goto("binary")
              /\ tagw' = tagw
         ELSE IF ok
         THEN /\ Done("tag") /\ fs' = fs /\ job' = job /\ Goto("binary")
              /\ tagw' = [tagw EXCEPT ![Cur] = get_platform_tag(Cur)]
         ELSE Raised(fs) /\ tagw' = tagw
    /\ UNCHANGED <<fnVars, frozen, phases, warned, childEnv, patchlog, lastChmod, script, darwin, completed, lastStrict, ncalls, compiled, binary, chain,
                   report, lib, aux>>

\* what build_rust_framework hands to package_wheel as binary_src_or_dir
BinaryKind(s, p) == IF s = ScriptA /\ p = "macos" THEN "dir" ELSE "file"

\* variant: a failing chmod raises out of package_wheel's try block
ChmodRaisesOnFailure(chmodOk) == ~chmodOk

\* try: os.chmod(pkg_dest, 0o755) except Exception: pass
ChmodRaises(chmodOk) == FALSE

\* the binary (file or directory) is copied into noventa_bin; a file that is
\* not there makes package_wheel return; the copied file is made executable
CopyBinary ==
    /\ Running("binary")
    /\ \E ok \in BOOLEAN, chmodOk \in BOOLEAN :
         LET kind == BinaryKind(script, Cur)
             there == kind = "dir" \/ binary[Cur] = "present"
         IN  /\ (kind = "dir" \/ ~there \/ ~ok) => chmodOk
             /\ lastChmod' = IF kind = "file" /\ there /\ ok
                              THEN [plat |-> Cur, ok |-> chmodOk] ELSE lastChmod
             /\ IF ~there
                THEN /\ PackageWheelExit(FALSE, "skipped", fs) /\ staged' = staged
                ELSE IF ok /\ ~ChmodRaises(chmodOk)
                THEN /\ Done("binary") /\ fs' = fs /\ job' = job
                     /\ Goto(IF DllArg(Cur) = "found" THEN "lib" ELSE "starter")
                ELSE Raised(fs)
    /\ UNCHANGED <<fnVars, frozen, phases, warned, tagw, childEnv, patchlog, script, darwin, completed, lastStrict, ncalls, compiled, binary, chain,
                   report, lib, aux>>

\* the runtime library is copied next to the binary
CopyLib ==
    /\ Running("lib")
    /\ \E ok \in BOOLEAN :
         IF ok
         THEN /\ Done("lib") /\ fs' = fs /\ job' = job /\ Goto("starter")
         ELSE Raised(fs)
    /\ UNCHANGED <<fnVars, frozen, logVars, script, darwin, completed, lastStrict, ncalls, compiled, binary, chain,
                   report, lib, aux>>

\* the starter templates are copied into the staged package
CopyStarter ==
    /\ Running("starter")
    /\ \E ok \in BOOLEAN :
         IF ok
         THEN /\ Done("starter") /\ fs' = fs /\ job' = job /\ Goto("primary")
         ELSE Raised(fs)
    /\ UNCHANGED <<fnVars, frozen, logVars, script, darwin, completed, lastStrict, ncalls, compiled, binary, chain,
                   report, lib, aux>>

----------------------------------------------------------------------------
(* package_wheel: the packaging tools *)

\* variant: the fallback is entered whatever the return code
NeedsFallbackAlways(rc) == TRUE

\* "if rc != 0" after the first python -m build
NeedsFallback(rc) == rc # 0

InstallsBuild(s) == s = ScriptA

Invoked(tool, rc) == chain' = [chain EXCEPT ![Cur] = Append(@, [tool |-> tool, ok |-> rc = 0])]

\* a run_command_allow_fail call; Then is what the caller does with rc
Tolerant(rc, Then) ==
    /\ ncalls' = ncalls + 1
    /\ IF run_command_allow_fail(rc).exits
       THEN /\ Exit(run_command_allow_fail(rc).status)
            /\ UNCHANGED <<job, fs, chain, report>>
       ELSE Then

Built(how) ==
    /\ report' = [report EXCEPT ![Cur] = how]
    /\ PackageWheelExit(FALSE, "built", fs)

Continue(step) ==
    /\ Goto(step)
    /\ UNCHANGED <<job, fs, report>>

\* python -m build
Primary ==
    /\ Running("primary")
    /\ \E rc \in ReturnCodes :
         Tolerant(rc, /\ Invoked("primary", rc)
                      /\ IF NeedsFallback(rc)
                         THEN Continue(IF InstallsBuild(script) THEN "install" ELSE "secondary")
                         ELSE Built("primary"))
    /\ phases' = [phases EXCEPT ![Cur] = Append(@, "build")]
    /\ UNCHANGED <<fnVars, frozen, warned, tagw, childEnv, patchlog, lastChmod, script, darwin, completed, lastStrict, compiled, binary, staged, lib, aux>>

\* pip install --upgrade build (build.py only)
Install ==
    /\ Running("install")
    /\ \E rc \in ReturnCodes :
         Tolerant(rc, /\ Invoked("install", rc)
                      /\ Continue(IF rc = 0 THEN "retry" ELSE "secondary"))
    /\ UNCHANGED <<fnVars, frozen, logVars, script, darwin, completed, lastStrict, compiled, binary, staged, lib, aux>>

\* python -m build once more, after the install
Retry ==
    /\ Running("retry")
    /\ \E rc \in ReturnCodes :
         Tolerant(rc, /\ Invoked("primary", rc)
                      /\ IF rc = 0
                         THEN Built("primary_after_install")
                         ELSE Continue("secondary"))
    /\ UNCHANGED <<fnVars, frozen, logVars, script, darwin, completed, lastStrict, compiled, binary, staged, lib, aux>>

\* pip wheel
Secondary ==
    /\ Running("secondary")
    /\ \E rc \in ReturnCodes :
         Tolerant(rc, /\ Invoked("secondary", rc)
                      /\ IF rc # 0
                         THEN /\ report' = [report EXCEPT ![Cur] = "failed"]
                              /\ PackageWheelExit(FALSE, "build_failed", fs)
                         ELSE Built("secondary"))
    /\ UNCHANGED <<fnVars, frozen, logVars, script, darwin, completed, lastStrict, compiled, binary, staged, lib, aux>>

----------------------------------------------------------------------------
(* package_vscode_extension and the end of __main__ *)

AuxRun(cmd, next) ==
    \E rc \in ReturnCodes :
       /\ Strict(cmd, "none", rc)
       /\ IF run_command(rc).exits
          THEN /\ Exit(run_command(rc).status) /\ aux' = aux
          ELSE /\ Goto(next) /\ aux' = aux + 1

\* npm install in the extension directory
NpmInstall ==
    /\ Running("npm")
    /\ AuxRun("npm", "vsce")
    /\ UNCHANGED <<fnVars, frozen, logVars, script, darwin, completed, compiled, binary, job, chain,
                   report, fs, staged, lib>>

\* npx vsce package
VscePackage ==
    /\ Running("vsce")
    /\ AuxRun("vsce", "finish")
    /\ UNCHANGED <<fnVars, frozen, logVars, script, darwin, completed, compiled, binary, job, chain,
                   report, fs, staged, lib>>

\* platform directories removed at the end of build/build.py
CleanupList(s) ==
    IF s = ScriptB
    THEN {"macos-arm64", "macos-x86_64", "linux", "linux-aarch64", "windows-amd64"}
    ELSE {}

\* variant: the message is printed only if some wheel was built
PrintsCompletedIfBuilt(anyBuilt) == anyBuilt

\* whether the completion message is printed, given whether any platform's
\* wheel was built: the print is unconditional
PrintsCompleted(anyBuilt) == TRUE

AnyBuilt == \E p \in AllPlatforms : job[p] = "built"

Finish ==
    /\ Running("finish")
    /\ fs' = {x \in fs : \A p \in CleanupList(script) :
                           x # PlatformDir(p) /\ Parent(script, x) # PlatformDir(p)}
    /\ completed' = PrintsCompleted(AnyBuilt)
    /\ pc' = "done"
    /\ plat' = plat
    /\ exited' = TRUE
    /\ exitCode' = 0
    /\ UNCHANGED <<fnVars, frozen, logVars, script, darwin, lastStrict, ncalls, compiled, binary, job, chain, report,
                   staged, lib, aux>>

----------------------------------------------------------------------------

Next ==
    \/ Start
    \/ Compile
    \/ CheckBinary
    \/ Locate
    \/ Otool
    \/ Rewrite
    \/ DeleteRpath
    \/ PwEnter
    \/ CopyTemplate
    \/ WriteTag
    \/ CopyBinary
    \/ CopyLib
    \/ CopyStarter
    \/ Primary
    \/ Install
    \/ Retry
    \/ Secondary
    \/ NpmInstall
    \/ VscePackage
    \/ Finish

Spec == Init /\ [][Next]_vars

----------------------------------------------------------------------------
(* The library lookup and the binary patch, each applied to inputs of its own *)

\* inputs of one lookup: whether the interpreter reports its version, the
\* directories of DYLD_LIBRARY_PATH, whether pyo3_build_config answers and
\* whether its directory holds the library; for the DLL, whether it is in
\* the fixed directory and whether it is next to the interpreter
LookupInputs ==
    {[f |-> "in", versionOk |-> v, dyld |-> d, libDirOk |-> o, libDirHas |-> h,
      inPythonDir |-> a, inExecutableDir |-> b, r |-> "none", at |-> 0] :
        v \in BOOLEAN, d \in PathLists, o \in BOOLEAN, h \in BOOLEAN,
        a \in BOOLEAN, b \in BOOLEAN}

pipeVars == <<script, darwin, pc, plat, exited, exitCode, completed, lastStrict,
              ncalls, compiled, binary, job, chain, report, fs, staged, lib, aux,
              phases, warned, tagw, environ, environ0, childEnv, patchlog,
              lastChmod>>

\* no run of the pipeline is in progress
NoRun ==
    /\ script = ScriptA
    /\ darwin = TRUE
    /\ pc = "start"
    /\ plat = 1
    /\ exited = FALSE
    /\ exitCode = 0
    /\ completed = FALSE
    /\ lastStrict = NoCall
    /\ ncalls = 0
    /\ compiled = [p \in AllPlatforms |-> "no"]
    /\ binary = [p \in AllPlatforms |-> "unknown"]
    /\ job = [p \in AllPlatforms |-> "pending"]
    /\ chain = [p \in AllPlatforms |-> <<>>]
    /\ report = [p \in AllPlatforms |-> "none"]
    /\ fs = {}
    /\ staged = [p \in AllPlatforms |-> {}]
    /\ lib = [p \in AllPlatforms |-> "none"]
    /\ aux = 0
    /\ phases = [p \in AllPlatforms |-> <<>>]
    /\ warned = [p \in AllPlatforms |-> {}]
    /\ tagw = [p \in AllPlatforms |-> "None"]
    /\ environ = [RUSTFLAGS |-> "unset", DYLD |-> <<>>, PYO3 |-> "unset"]
    /\ environ0 = environ
    /\ childEnv = [p \in AllPlatforms |-> NoEnv]
    /\ patchlog = NoPatch
    /\ lastChmod = NoChmod

InitFn ==
    /\ NoRun
    /\ NoApp
    /\ \/ lookup \in LookupInputs /\ macho = NoBinary
       \/ lookup = NoLookup /\ macho \in BinaryInputs

\* find_libpython_path() is called on the inputs
CallFindLibpython ==
    /\ lookup.f = "in"
    /\ LET res == find_libpython_path(lookup.versionOk, lookup.dyld,
                                      lookup.libDirOk, lookup.libDirHas)
       IN  lookup' = [lookup EXCEPT !.f = "libpython", !.r = res.r, !.at = res.at]
    /\ UNCHANGED <<pipeVars, macho, appVars>>

\* find_python_dll_path() is called on the inputs
CallFindPythonDll ==
    /\ lookup.f = "in"
    /\ lookup' = [lookup EXCEPT !.f = "dll",
                                 !.r = find_python_dll_path(lookup.inPythonDir,
                                                            lookup.inExecutableDir)]
    /\ UNCHANGED <<pipeVars, macho, appVars>>

\* the patch sequence of build.py is applied to the binary once more
PatchBinary ==
    /\ ~macho.stopped
    /\ macho.n < MaxPatch
    /\ \E changeOk \in BOOLEAN : macho' = Patch(macho, changeOk)
    /\ UNCHANGED <<pipeVars, lookup, appVars>>

NextFn ==
    \/ CallFindLibpython
    \/ CallFindPythonDll
    \/ PatchBinary

SpecFn == InitFn /\ [][NextFn]_vars

----------------------------------------------------------------------------
(* The noventa command (python_package/src/noventa/cli.py) *)

\* most arguments the user passes
MaxArgs == 2

\* sys.argv[1:]
ArgLists == UNION {[1 .. n -> {"new", "dev"}] : n \in 0 .. MaxArgs}

\* variant: the user's arguments are put before --starter
cmd_args_first(argv) == <<"bin_path">> \o argv \o <<"--starter", "st_path">>

\* [str(bin_path), "--starter", str(st_path)] + sys.argv[1:]
cmd(argv) == <<"bin_path", "--starter", "st_path">> \o argv

\* main(): locateOk tells whether files()/as_file() gave the two paths,
\* launchOk whether subprocess.run started the binary, rc is the binary's
\* return code. The result is the command line run and the exit status.
main(argv, locateOk, launchOk, rc) ==
    IF ~locateOk THEN [cmd |-> <<>>, status |-> 1]
    ELSE IF ~launchOk THEN [cmd |-> cmd(argv), status |-> 1]
    ELSE [cmd |-> cmd(argv), status |-> ExitStatus(rc)]

CliInputs ==
    {[state |-> "in", argv |-> a, locateOk |-> l, launchOk |-> x, rc |-> r,
      cmd |-> <<>>, status |-> 0] :
        a \in ArgLists, l \in BOOLEAN, x \in BOOLEAN, r \in ReturnCodes}

InitCli ==
    /\ NoRun
    /\ lookup = NoLookup /\ macho = NoBinary
    /\ cli \in CliInputs /\ pipe = NoPipe /\ ctr = NoCtr

\* the noventa command runs to its exit
CliMain ==
    /\ cli.state = "in"
    /\ LET res == main(cli.argv, cli.locateOk, cli.launchOk, cli.rc)
       IN  cli' = [cli EXCEPT !.state = "exited", !.cmd = res.cmd,
                              !.status = res.status]
    /\ UNCHANGED <<pipeVars, lookup, macho, pipe, ctr>>

NextCli == CliMain

SpecCli == InitCli /\ [][NextCli]_vars

----------------------------------------------------------------------------
(* run_command with its child process and the two pipes *)

\* most lines a child writes
MaxLines == 3

\* lines a pipe holds before a write to it blocks
PipeCap == 1

\* what a child does: the stream of each line it writes, in order
Programs == UNION {[1 .. n -> {"out", "err"}] : n \in 0 .. MaxLines}

\* subprocess.Popen(..., stdout=PIPE, stderr=PIPE): the child has started,
\* the parent is about to call process.stdout.readline()
PipeInputs ==
    {[state |-> "run", prog |-> g, rc |-> r, at |-> 1, alive |-> TRUE,
      out |-> 0, err |-> 0, ppc |-> "read_out", gotOut |-> FALSE,
      gotErr |-> FALSE, printed |-> 0, status |-> 0] :
        g \in Programs, r \in ReturnCodes}

InitPipe ==
    /\ NoRun
    /\ lookup = NoLookup /\ macho = NoBinary
    /\ cli = NoCli /\ pipe \in PipeInputs /\ ctr = NoCtr

\* the child's next write would block: the pipe it writes to is full
ChildBlocked ==
    /\ pipe.alive
    /\ pipe.at <= Len(pipe.prog)
    /\ IF pipe.prog[pipe.at] = "out" THEN pipe.out >= PipeCap
                                     ELSE pipe.err >= PipeCap

\* the parent's readline() blocks: the pipe is empty and its write end is
\* still open in the living child
ParentBlocked ==
    \/ pipe.ppc = "read_out" /\ pipe.out = 0 /\ pipe.alive
    \/ pipe.ppc = "read_err" /\ pipe.err = 0 /\ pipe.alive

\* the child writes its next line
ChildWrite ==
    /\ pipe.state = "run" /\ pipe.alive
    /\ pipe.at <= Len(pipe.prog)
    /\ ~ChildBlocked
    /\ pipe' = IF pipe.prog[pipe.at] = "out"
               THEN [pipe EXCEPT !.at = @ + 1, !.out = @ + 1]
               ELSE [pipe EXCEPT !.at = @ + 1, !.err = @ + 1]
    /\ UNCHANGED <<pipeVars, lookup, macho, cli, ctr>>

\* the child has written everything and exits, which closes both pipes
ChildExit ==
    /\ pipe.state = "run" /\ pipe.alive
    /\ pipe.at > Len(pipe.prog)
    /\ pipe' = [pipe EXCEPT !.alive = FALSE]
    /\ UNCHANGED <<pipeVars, lookup, macho, cli, ctr>>

\* stdout_line = process.stdout.readline(): a line, or '' at end of file
ReadStdout ==
    /\ pipe.state = "run" /\ pipe.ppc = "read_out"
    /\ ~ParentBlocked
    /\ pipe' = IF pipe.out > 0
               THEN [pipe EXCEPT !.out = @ - 1, !.gotOut = TRUE, !.ppc = "read_err"]
               ELSE [pipe EXCEPT !.gotOut = FALSE, !.ppc = "read_err"]
    /\ UNCHANGED <<pipeVars, lookup, macho, cli, ctr>>

\* stderr_line = process.stderr.readline()
ReadStderr ==
    /\ pipe.state = "run" /\ pipe.ppc = "read_err"
    /\ ~ParentBlocked
    /\ pipe' = IF pipe.err > 0
               THEN [pipe EXCEPT !.err = @ - 1, !.gotErr = TRUE, !.ppc = "print"]
               ELSE [pipe EXCEPT !.gotErr = FALSE, !.ppc = "print"]
    /\ UNCHANGED <<pipeVars, lookup, macho, cli, ctr>>

\* the lines read are printed; the loop ends when both reads gave '' and
\* poll() reports the child's end, and the return code is then checked
PrintAndPoll ==
    /\ pipe.state = "run" /\ pipe.ppc = "print"
    /\ LET n == (IF pipe.gotOut THEN 1 ELSE 0) + (IF pipe.gotErr THEN 1 ELSE 0)
       IN  IF ~pipe.gotOut /\ ~pipe.gotErr /\ ~pipe.alive
           THEN pipe' = [pipe EXCEPT !.ppc = IF run_command(pipe.rc).exits
                                             THEN "exited" ELSE "returned",
                                     !.status = run_command(pipe.rc).status]
           ELSE pipe' = [pipe EXCEPT !.printed = @ + n, !.ppc = "read_out"]
    /\ UNCHANGED <<pipeVars, lookup, macho, cli, ctr>>

NextPipe ==
    \/ ChildWrite
    \/ ChildExit
    \/ ReadStdout
    \/ ReadStderr
    \/ PrintAndPoll

SpecPipe == InitPipe /\ [][NextPipe]_vars

----------------------------------------------------------------------------
(* The counter components: counter.py keeps the count in the module-level  *)
(* counter_store, counter_logic.py in the first row of the Counter table.  *)

\* most handler calls in one run
MaxCalls == 4

\* the Counter table when the process starts: empty (<<>>) or one row
Rows == {<<>>, <<0>>, <<1>>}

\* counter_store = {"count": 0}, no handler called yet
CtrInputs ==
    {[state |-> "run", count |-> 0, row |-> r, incs |-> 0, decs |-> 0,
      calls |-> 0, last |-> "none", db |-> FALSE, before |-> 0,
      rowBefore |-> r, result |-> [kind |-> "none", count |-> 0]] :
        r \in Rows}

InitCtr ==
    /\ NoRun
    /\ lookup = NoLookup /\ macho = NoBinary
    /\ cli = NoCli /\ pipe = NoPipe /\ ctr \in CtrInputs

\* the dictionary a handler returns, by its "count" entry
State(n) == [kind |-> "state", count |-> n]

\* {"error": "Database connection not available"}
ErrorResult == [kind |-> "error", count |-> 0]

\* an exception leaves the handler instead of a return value
RaisedResult == [kind |-> "raised", count |-> 0]

increment_noop(c) == c

\* counter_store["count"] += 1, counter.count += 1
increment(c) == c + 1

\* counter_store["count"] -= 1, counter.count -= 1
decrement(c) == c - 1

\* one more handler call: what it was, and what the stores held before it
Called(name, db) ==
    [ctr EXCEPT !.calls = @ + 1, !.last = name, !.db = db,
                !.before = ctr.count, !.rowBefore = ctr.row]

CanCall == ctr.state = "run" /\ ctr.calls < MaxCalls

\* counter.py load_template_context
load_template_context ==
    /\ CanCall
    /\ ctr' = [Called("load_template_context", FALSE) EXCEPT
                  !.result = State(ctr.count)]
    /\ UNCHANGED <<pipeVars, lookup, macho, cli, pipe>>

\* counter.py action_increment
action_increment ==
    /\ CanCall
    /\ ctr' = [Called("action_increment", FALSE) EXCEPT
                  !.count = increment(ctr.count),
                  !.incs = @ + 1,
                  !.result = State(increment(ctr.count))]
    /\ UNCHANGED <<pipeVars, lookup, macho, cli, pipe>>

\* counter.py action_decrement
action_decrement ==
    /\ CanCall
    /\ ctr' = [Called("action_decrement", FALSE) EXCEPT
                  !.count = decrement(ctr.count),
                  !.decs = @ + 1,
                  !.result = State(decrement(ctr.count))]
    /\ UNCHANGED <<pipeVars, lookup, macho, cli, pipe>>

\* counter.py action_upload, with or without a file in the request
action_upload ==
    /\ CanCall
    /\ \E file \in BOOLEAN :
         ctr' = [Called("action_upload", FALSE) EXCEPT
                   !.result = State(ctr.count)]
    /\ UNCHANGED <<pipeVars, lookup, macho, cli, pipe>>

\* the first Counter row, created with count 0 when the table is empty
get_or_create_counter(row) == IF row = <<>> THEN <<0>> ELSE row

\* counter_logic.py load_template_context
logic_load_template_context ==
    /\ CanCall
    /\ \E db \in BOOLEAN :
         LET c == get_or_create_counter(ctr.row)
         IN  ctr' = IF ~db
                    THEN [Called("logic.load_template_context", db) EXCEPT
                            !.result = ErrorResult]
                    ELSE [Called("logic.load_template_context", db) EXCEPT
                            !.row = c, !.result = State(c[1])]
    /\ UNCHANGED <<pipeVars, lookup, macho, cli, pipe>>

\* counter_logic.py action_increment
logic_action_increment ==
    /\ CanCall
    /\ \E db \in BOOLEAN :
         LET c == <<increment(get_or_create_counter(ctr.row)[1])>>
         IN  ctr' = IF ~db
                    THEN [Called("logic.action_increment", db) EXCEPT
                            !.result = ErrorResult]
                    ELSE [Called("logic.action_increment", db) EXCEPT
                            !.row = c, !.result = State(c[1])]
    /\ UNCHANGED <<pipeVars, lookup, macho, cli, pipe>>

\* counter_logic.py action_decrement
logic_action_decrement ==
    /\ CanCall
    /\ \E db \in BOOLEAN :
         LET c == <<decrement(get_or_create_counter(ctr.row)[1])>>
         IN  ctr' = IF ~db
                    THEN [Called("logic.action_decrement", db) EXCEPT
                            !.result = ErrorResult]
                    ELSE [Called("logic.action_decrement", db) EXCEPT
                            !.row = c, !.result = State(c[1])]
    /\ UNCHANGED <<pipeVars, lookup, macho, cli, pipe>>

\* the names bound at module level in counter_logic.py
LogicGlobals ==
    {"Counter", "get_or_create_counter", "load_template_context",
     "action_increment", "action_decrement", "action_upload"}

\* counter_logic.py action_upload: it takes no db argument and evaluates
\* counter_store["count"], a name the module neither defines nor imports
logic_action_upload ==
    /\ CanCall
    /\ \E file \in BOOLEAN :
         ctr' = [Called("logic.action_upload", FALSE) EXCEPT
                   !.result = IF "counter_store" \in LogicGlobals
                              THEN State(ctr.count)
                              ELSE RaisedResult]
    /\ UNCHANGED <<pipeVars, lookup, macho, cli, pipe>>

NextCtr ==
    \/ load_template_context
    \/ action_increment
    \/ action_decrement
    \/ action_upload
    \/ logic_load_template_context
    \/ logic_action_increment
    \/ logic_action_decrement
    \/ logic_action_upload

SpecCtr == InitCtr /\ [][NextCtr]_vars

TypeOK ==
    /\ script \in Scripts
    /\ darwin \in BOOLEAN
    /\ plat \in 1 .. Len(Platforms)
    /\ exited \in BOOLEAN
    /\ exitCode \in 0 .. 255
    /\ completed \in BOOLEAN
    /\ \A p \in AllPlatforms : Len(chain[p]) <= 4

----------------------------------------------------------------------------
(* Properties *)

TolerantSteps == {"primary", "install", "retry", "secondary", "rpath"}

Count(c, tool) == Cardinality({k \in 1 .. Len(c) : c[k].tool = tool})

\* the fallback chain of platform p ran to its end and no packaging tool succeeded
AllFailed(p) ==
    /\ chain[p] # <<>>
    /\ \A k \in 1 .. Len(chain[p]) : chain[p][k].tool # "install" => ~chain[p][k].ok
    /\ chain[p][Len(chain[p])].tool = "secondary"

\* after the job of the i-th platform, control reached the next step of the
\* run: the compile of platform i+1, or the extension packaging after the last
HandedOver(i) ==
    IF i < Len(Platforms)
    THEN \/ compiled[Platforms[i + 1]] # "no"
         \/ plat = i + 1 /\ pc = "compile" /\ ~exited
    ELSE \/ lastStrict.cmd \in {"npm", "vsce"}
         \/ pc = "npm" /\ ~exited

\* the job of platform p is over: package_wheel was entered and has returned or raised
JobOver(p) == job[p] \in {"built", "build_failed", "abandoned"}

\* C1: a run_command whose command returned a non-zero code has ended the
\* run: the interpreter has exited, with exactly that code when the command
\* exited with a code c > 0, no external command was started after it, and
\* the completion message is not printed.
C1_StrictFailureIsFatal ==
    lastStrict.rc # 0 =>
        /\ exited
        /\ exitCode # 0
        /\ lastStrict.rc > 0 => exitCode = lastStrict.rc
        /\ ncalls = lastStrict.n
        /\ ~completed
        /\ pc \notin {"finish", "done"}

\* the rewrite inside try/except failed with code 2 and ended the run with 2
C1_Witness ==
    /\ exited
    /\ lastStrict.cmd = "install_name_tool"
    /\ lastStrict.rc = 2
    /\ exitCode = 2

\* C2: when the compile of the i-th platform failed, the run has exited with
\* the compiler's code and nothing of any later platform (compile, lookup,
\* assembly, packaging tool) nor the extension packaging was attempted.
C2_CompileFailureAborts ==
    \A i \in 1 .. Len(Platforms) :
        compiled[Platforms[i]] = "failed" =>
            /\ exited
            /\ lastStrict.cmd = "compile" /\ lastStrict.plat = Platforms[i]
            /\ exitCode # 0
            /\ lastStrict.rc > 0 => exitCode = lastStrict.rc
            /\ aux = 0
            /\ ~completed
            /\ \A j \in (i + 1) .. Len(Platforms) :
                 LET q == Platforms[j]
                 IN  /\ compiled[q] = "no"
                     /\ binary[q] = "unknown"
                     /\ job[q] = "pending"
                     /\ lib[q] = "none"
                     /\ staged[q] = {}
                     /\ chain[q] = <<>>

\* the second platform's compile failed with code 1 after the first was built
C2_Witness ==
    /\ Len(Platforms) > 2
    /\ job[Platforms[1]] = "built"
    /\ compiled[Platforms[2]] = "failed"
    /\ exitCode = 1

\* C3: when the compile returned 0 and the expected binary is missing, the
\* platform is skipped (no library lookup, no patch, nothing staged, no
\* packaging tool), the run goes on, and the next step of the run is the
\* compile of the next platform.
C3_MissingBinarySkips ==
    \A i \in 1 .. Len(Platforms) :
        LET p == Platforms[i]
        IN  binary[p] = "missing" =>
                /\ job[p] = "skipped"
                /\ lib[p] = "none"
                /\ ~(lastStrict.cmd = "install_name_tool" /\ lastStrict.plat = p)
                /\ staged[p] = {}
                /\ chain[p] = <<>>
                /\ PkgDir(p) \notin fs
                /\ HandedOver(i)

\* a platform was skipped and the next one compiled
C3_Witness ==
    \E i \in 1 .. Len(Platforms) - 1 :
        /\ binary[Platforms[i]] = "missing"
        /\ compiled[Platforms[i]] = "ok"
        /\ compiled[Platforms[i + 1]] = "ok"

\* C4: with a primary tool that always fails and an install that does not
\* fail, the secondary tool is invoked at most once and only after two
\* failed runs of the primary tool (the first and the retry).
C4_SecondaryOnlyAfterRetry ==
    \A p \in AllPlatforms :
        LET c == chain[p]
        IN  (/\ \A k \in 1 .. Len(c) : c[k].tool = "primary" => ~c[k].ok
             /\ \A k \in 1 .. Len(c) : c[k].tool = "install" => c[k].ok)
            => /\ Count(c, "secondary") <= 1
               /\ \A k \in 1 .. Len(c) :
                    c[k].tool = "secondary" =>
                        Cardinality({j \in 1 .. (k - 1) : c[j].tool = "primary"}) = 2

\* C5: a packaging tool that returned 0 is the last invocation of its
\* platform and the wheel counts as built; after primary failure, install
\* success and retry success nothing else runs and the success message is
\* the one of the primary tool.
C5_StopsAtFirstSuccess ==
    \A p \in AllPlatforms :
        LET c == chain[p]
        IN  /\ \A k \in 1 .. Len(c) :
                 (c[k].ok /\ c[k].tool # "install") =>
                     /\ k = Len(c)
                     /\ job[p] = "built"
                     /\ report[p] \notin {"none", "failed"}
                     /\ c[k].tool = "primary" <=> report[p] \in {"primary", "primary_after_install"}
            /\ (Len(c) >= 3 /\ ~c[1].ok /\ c[2].tool = "install" /\ c[2].ok /\ c[3].ok) =>
                 /\ Len(c) = 3
                 /\ c[3].tool = "primary"
                 /\ Count(c, "secondary") = 0
                 /\ report[p] = "primary_after_install"

\* primary failed, install succeeded, retry succeeded
C5_Witness ==
    \E p \in AllPlatforms :
        /\ chain[p] = <<[tool |-> "primary", ok |-> FALSE],
                        [tool |-> "install", ok |-> TRUE],
                        [tool |-> "primary", ok |-> TRUE]>>
        /\ report[p] = "primary_after_install"
        /\ job[p] = "built"

\* C6: after a failed first primary run, the install is attempted exactly
\* once and before any secondary run, the primary tool is retried exactly
\* when the install succeeded, and the secondary tool runs exactly when the
\* install or the retry failed.
C6_InstallThenRetryThenSecondary ==
    \A p \in AllPlatforms :
        LET c == chain[p]
        IN  (Len(c) >= 1 /\ ~c[1].ok) =>
                /\ Count(c, "primary") <= 2
                /\ Count(c, "install") <= 1
                /\ Count(c, "secondary") <= 1
                /\ \A k \in 1 .. Len(c) :
                     c[k].tool = "secondary" =>
                         \E j \in 1 .. (k - 1) : c[j].tool = "install"
                /\ JobOver(p) /\ job[p] # "abandoned" =>
                     /\ Count(c, "install") = 1
                     /\ Count(c, "primary") = 2 <=> c[2].ok
                     /\ Count(c, "secondary") = 1 <=>
                            (~c[2].ok \/ (Len(c) >= 3 /\ ~c[3].ok))

\* C7: no run_command_allow_fail call ends the run; when every packaging
\* attempt of a platform failed the failure is reported for that platform,
\* and control reaches the next platform's compile (or the extension
\* packaging after the last platform).
C7_TolerantNeverFatal ==
    /\ exited => pc \notin TolerantSteps
    /\ \A i \in 1 .. Len(Platforms) :
         LET p == Platforms[i]
         IN  /\ AllFailed(p) =>
                   /\ report[p] = "failed"
                   /\ job[p] = "build_failed"
                   /\ HandedOver(i)
             /\ report[p] = "failed" => AllFailed(p)

\* every attempt of one platform failed and the next platform was built
C7_Witness ==
    \E i \in 1 .. Len(Platforms) - 1 :
        /\ AllFailed(Platforms[i])
        /\ job[Platforms[i + 1]] = "built"

\* C8 as stated: success is reported only if some platform's wheel was built.
C8_SuccessNeedsABuiltPlatform ==
    completed => AnyBuilt

\* C8 amended: success is reported exactly when the run reaches the end of
\* __main__, whatever the platforms' results: a run that ends does so with
\* the completion message and exit code 0, and the message implies that both
\* extension commands and every compile returned 0.
C8_SuccessIffRunReachesEnd ==
    /\ pc = "done" => completed /\ exited /\ exitCode = 0
    /\ completed =>
         /\ pc = "done"
         /\ aux = 2
         /\ lastStrict.rc = 0
         /\ \A p \in AllPlatforms : compiled[p] # "failed"

\* the wheel build of every platform failed and success is reported
C8_Witness ==
    /\ completed
    /\ exitCode = 0
    /\ \A i \in 1 .. Len(Platforms) : report[Platforms[i]] = "failed"

\* C9: once the job of a platform is over, the working directory
\* package_wheel made for it and the staged package tree are gone.
C9_StagingRemovedAfterJob ==
    \A p \in AllPlatforms :
        JobOver(p) => TempDir(script, p) \notin fs /\ PkgDir(p) \notin fs

\* C10: when an assembly step of a platform raised, its job is abandoned and
\* control reaches the next platform's compile.
C10_AssemblyFailureNonFatal ==
    \A i \in 1 .. Len(Platforms) :
        job[Platforms[i]] = "abandoned" => HandedOver(i)

\* C11 as stated: when the install_name_tool -change of the macOS job failed,
\* only that job is abandoned and control goes on to the next platform.
C11_PatchFailureSkipsPlatformOnly ==
    \A i \in 1 .. Len(Platforms) :
        (/\ lastStrict.cmd = "install_name_tool"
         /\ lastStrict.plat = Platforms[i]
         /\ lastStrict.rc # 0) => (~exited /\ HandedOver(i))

\* C11 (amended): when the install_name_tool -change of a job returned a
\* non-zero code, the whole run has ended with a non-zero status (the code
\* itself when it is positive): that platform is not packaged, no later
\* platform is compiled, the extension is not packaged and no completion
\* message is printed.
C11_PatchFailureEndsRun ==
    \A i \in 1 .. Len(Platforms) :
        (/\ lastStrict.cmd = "install_name_tool"
         /\ lastStrict.plat = Platforms[i]
         /\ lastStrict.rc # 0) =>
            /\ exited
            /\ exitCode = ExitStatus(lastStrict.rc)
            /\ exitCode # 0
            /\ chain[Platforms[i]] = <<>>
            /\ staged[Platforms[i]] = {}
            /\ ~HandedOver(i)
            /\ \A k \in (i + 1) .. Len(Platforms) : compiled[Platforms[k]] = "no"
            /\ aux = 0
            /\ ~completed

\* the rewrite of the macOS binary returned 1 and the run ended there, before
\* the linux compile
C11_Witness ==
    /\ lastStrict = [cmd |-> "install_name_tool", plat |-> "macos", rc |-> 1,
                     n |-> ncalls]
    /\ job["macos"] = "patch_failed"
    /\ exited /\ exitCode = 1
    /\ compiled["linux"] = "no"

\* a directory of one platform below the output directory: its output
\* directory, its temporary build directory or anything inside them
Intermediate(x) == x.d \in {"platform", "build", "pkg", "bin"}

\* C12: when the run has ended, by completing or by a fatal abort, no
\* per-platform staging root and no platform output directory exists.
C12_NothingLeftWhenRunEnds ==
    exited => \A x \in fs : ~Intermediate(x)

\* position of a step in the order compile, lookup, patch, assembly, build
Rank(ph) ==
    CASE ph = "compile"  -> 1
      [] ph = "locate"   -> 2
      [] ph = "patch"    -> 3
      [] ph = "assemble" -> 4
      [] ph = "build"    -> 5

Happened(p, ph) == \E k \in 1 .. Len(phases[p]) : phases[p][k] = ph

\* C13 as stated: within a job the binary patch comes before the lookup of
\* the runtime library: no lookup precedes a patch of the same job.
C13_NeverLocatedBeforePatch ==
    \A p \in AllPlatforms :
        \A i \in 1 .. Len(phases[p]), j \in 1 .. Len(phases[p]) :
            (i < j /\ phases[p][j] = "patch") => phases[p][i] # "locate"

\* C13 (amended): the steps of a job start in the order compile, library
\* lookup, binary patch, assembly, artifact build, each at most once; a patch
\* is started only after the lookup of the same job has found the library,
\* an assembly only after the compile and a build only after the assembly.
C13_JobOrder ==
    \A p \in AllPlatforms :
        LET ph == phases[p]
        IN  /\ ph # <<>> => ph[1] = "compile"
            /\ \A i \in 2 .. Len(ph) :
                   /\ Rank(ph[i - 1]) < Rank(ph[i])
                   /\ ph[i] = "patch" => ph[i - 1] = "locate" /\ lib[p] = "found"
                   /\ ph[i] = "build" => ph[i - 1] = "assemble"

\* the macOS job went through all five steps, lookup before patch
C13_Witness ==
    phases["macos"] = <<"compile", "locate", "patch", "assemble", "build">>

\* the job of platform p has ended: skipped for want of a binary, or
\* package_wheel has returned
JobEnded(p) == job[p] \in {"skipped", "built", "build_failed", "abandoned"}

\* C14: the platform jobs run one after another in the declared order: only
\* the current platform's job is in progress, every earlier one has ended and
\* no later one has begun; when the compile of a platform has started, the job
\* before it has ended, its artifact build and the removal of its temporary
\* build directory included; the extension packaging is invoked only when
\* every job has ended, and the final cleanup comes only after both of its
\* commands have returned 0.
C14_JobsInDeclaredOrder ==
    LET P == Platforms
        Over(q) == JobEnded(q) /\ (CleansTemp(script) => BuildDir(q) \notin fs)
    IN  /\ \A p \in AllPlatforms :
               (\A i \in 1 .. Len(P) : P[i] # p) =>
                   compiled[p] = "no" /\ job[p] = "pending"
        /\ \A i \in 1 .. Len(P) :
               /\ i < plat => compiled[P[i]] = "ok" /\ Over(P[i])
               /\ i > plat => compiled[P[i]] = "no" /\ job[P[i]] = "pending"
               /\ (i > 1 /\ compiled[P[i]] # "no") =>
                      compiled[P[i - 1]] = "ok" /\ Over(P[i - 1])
        /\ (lastStrict.cmd \in {"npm", "vsce"} \/ pc \in {"npm", "vsce", "finish", "done"}) =>
               \A i \in 1 .. Len(P) : Over(P[i])
        /\ pc \in {"finish", "done"} => aux = 2 /\ lastStrict.cmd = "vsce"

\* all five jobs of build/build.py on a macOS host were built one after the
\* other, then the extension was packaged and the run finished
C14_Witness ==
    /\ script = ScriptB /\ darwin
    /\ \A p \in AllPlatforms : p # "macos" /\ p # "windows" => job[p] = "built"
    /\ lastStrict.cmd = "vsce"
    /\ pc = "done"

\* C15: when the compile of a platform succeeded and the lookup of its runtime
\* library returned None, the lookup has not ended the run: a warning was
\* printed, package_wheel is entered for the platform, no library is staged
\* into its package, and a wheel that is built for it holds the binary and
\* no library.
C15_AbsentLibraryStillPackaged ==
    \A i \in 1 .. Len(Platforms) :
        LET p == Platforms[i]
        IN  (compiled[p] = "ok" /\ Happened(p, "locate") /\ lib[p] = "none") =>
                /\ "library" \in warned[p]
                /\ \/ plat = i /\ pc = "pw_enter" /\ ~exited
                   \/ Happened(p, "assemble")
                /\ "lib" \notin staged[p]
                /\ ~Happened(p, "patch")
                /\ job[p] = "built" =>
                       "binary" \in staged[p] /\ Happened(p, "build")

\* a platform whose library was not found has its wheel built without it
C15_Witness ==
    \E p \in AllPlatforms :
        /\ compiled[p] = "ok"
        /\ lib[p] = "none"
        /\ "library" \in warned[p]
        /\ job[p] = "built"
        /\ "lib" \notin staged[p]

\* directories of the search path of the lookup under study that hold the library
Holding == {i \in 1 .. Len(lookup.dyld) : lookup.dyld[i]}

\* C16: a lookup applies its sources in priority order: the first directory
\* of DYLD_LIBRARY_PATH that holds the library is returned; if none holds it,
\* the directory pyo3_build_config reports is consulted; if that lacks it
\* too, the lookup returns None. It never ends the run. The DLL lookup
\* returns the DLL when one of its two directories holds it, None otherwise.
C16_LocatorPriorityOrder ==
    /\ (lookup.f = "libpython" /\ lookup.versionOk) =>
           IF Holding # {}
           THEN /\ lookup.r = "found"
                /\ lookup.at \in Holding
                /\ \A j \in Holding : lookup.at <= j
           ELSE IF lookup.libDirOk /\ lookup.libDirHas
           THEN lookup.r = "found" /\ lookup.at = 0
           ELSE lookup.r = "none"
    /\ lookup.f = "dll" =>
           lookup.r = (IF lookup.inPythonDir \/ lookup.inExecutableDir
                       THEN "found" ELSE "none")

\* number of dependency entries of the binary under study that are relative
\* to the binary's own directory
Relative(deps) ==
    Cardinality({i \in 1 .. Len(deps) : deps[i].dir = <<"@loader_path">>})

\* C18: applying the patch sequence to a binary that was already patched
\* leaves its dependency entries as they were: when the second application
\* rewrites an entry at all, it rewrites it to the value it already has, and
\* the number of entries relative to @loader_path does not grow.
C18_PatchIdempotent ==
    macho.n >= 2 =>
        /\ macho.deps = macho.prev
        /\ macho.old = macho.new
        /\ Relative(macho.deps) = Relative(macho.prev)
        /\ Len(macho.deps) = Len(macho.prev)

\* a binary that named /a/libpython3.10.dylib was patched twice and names
\* @loader_path/libpython3.10.dylib
C18_Witness ==
    /\ macho.n = 2
    /\ macho.old = [dir |-> <<"@loader_path">>, name |-> "libpython3.10.dylib"]
    /\ macho.deps[1] = [dir |-> <<"@loader_path">>, name |-> "libpython3.10.dylib"]
    /\ macho.rpaths = {}

\* C17: the environment of the build script is what it was when the run
\* started, and every compiler process received that starting environment
\* changed by the overrides of its own platform only: RUSTFLAGS is the
\* platform's own value or the starting one, DYLD_LIBRARY_PATH is the
\* starting one unless the platform's own block deletes it.
C17_OverridesStayInChild ==
    /\ environ = environ0
    /\ \A p \in AllPlatforms :
           compiled[p] # "no" =>
               /\ childEnv[p] = CompileEnv(script, p, environ0)
               /\ childEnv[p].RUSTFLAGS \in {environ0.RUSTFLAGS, p}
               /\ (script = ScriptA \/ p \notin {"linux", "linux-aarch64"}) =>
                      childEnv[p].DYLD = environ0.DYLD

\* build/build.py on a macOS host with RUSTFLAGS and DYLD_LIBRARY_PATH set:
\* the linux compiler ran without DYLD_LIBRARY_PATH and with the user's
\* RUSTFLAGS, after the macOS compiler had its own RUSTFLAGS; the Windows
\* compiler saw DYLD_LIBRARY_PATH again
C17_Witness ==
    /\ script = ScriptB
    /\ environ0 = [RUSTFLAGS |-> "user", DYLD |-> <<TRUE>>, PYO3 |-> "unset"]
    /\ childEnv["macos-arm64"].RUSTFLAGS = "macos-arm64"
    /\ childEnv["linux"] = [RUSTFLAGS |-> "user", DYLD |-> <<>>, PYO3 |-> "unset"]
    /\ childEnv["windows-amd64"] =
           [RUSTFLAGS |-> "windows-amd64", DYLD |-> <<TRUE>>, PYO3 |-> "1"]
    /\ environ = environ0

\* C19: when the completion message has been printed, no per-platform
\* directory and no per-job staging directory is left below the output
\* directory.
C19_FlatOutputAtCompletion ==
    completed => \A x \in fs : ~Intermediate(x)

\* C20: for every platform that has a distribution tag, once a packaging
\* tool was invoked for it the tag fragment is in its staged package and
\* records the tag of exactly that platform; a wheel built for linux is
\* therefore tagged with the linux tag.
C20_TagWrittenBeforePackaging ==
    \A p \in AllPlatforms :
        (get_platform_tag(p) # "None" /\ chain[p] # <<>>) =>
            /\ "tag" \in staged[p]
            /\ tagw[p] = get_platform_tag(p)

\* C21: the noventa command runs the bundled binary with --starter, the
\* starter path and then the user's arguments in their order, and exits
\* with the binary's return code (the code itself when the binary exited
\* with one, the code modulo 256 when a signal ended it); when locating or
\* launching the binary raised, it exits with 1.
C21_ShimForwardsArgsAndCode ==
    cli.state = "exited" =>
        /\ (cli.locateOk /\ cli.launchOk) =>
               /\ cli.cmd = <<"bin_path", "--starter", "st_path">> \o cli.argv
               /\ cli.rc >= 0 => cli.status = cli.rc
               /\ cli.status = cli.rc % 256
        /\ ~(cli.locateOk /\ cli.launchOk) => cli.status = 1

\* noventa new dev: the binary got --starter <path> new dev, returned 2,
\* and the command exited with 2
C21_Witness ==
    /\ cli.state = "exited"
    /\ cli.argv = <<"new", "dev">>
    /\ cli.cmd = <<"bin_path", "--starter", "st_path", "new", "dev">>
    /\ cli.rc = 2
    /\ cli.status = 2

\* C22: when otool found no dependency entry matching libpython, patching
\* was skipped without error: neither install_name_tool call was made, the
\* inspection did not end the run, and package_wheel is entered for the
\* platform, whose wheel can still be built.
C22_NoMatchSkipsPatch ==
    patchlog.otool = "nomatch" =>
        /\ patchlog.change = "none"
        /\ patchlog.rpath = "none"
        /\ lastStrict.cmd # "install_name_tool"
        /\ \/ Cur = "macos" /\ pc = "pw_enter" /\ ~exited
           \/ Happened("macos", "assemble")
        /\ "otool" \in warned["macos"]

\* otool matched nothing and the macOS wheel was built all the same
C22_Witness ==
    /\ patchlog = [otool |-> "nomatch", change |-> "none", rpath |-> "none"]
    /\ phases["macos"] = <<"compile", "locate", "patch", "assemble", "build">>
    /\ job["macos"] = "built"

\* the best-effort step of platform p that failed did not stop its job:
\* the binary is in the staged package
Swallowed(p) == "binary" \in staged[p] /\ job[p] # "pending"

\* C23 as stated: a failed chmod of the staged binary, or a failed removal
\* of the stale rpath, is logged as a warning and does not stop the job.
C23_HygieneFailureLogged ==
    /\ (lastChmod.plat # "none" /\ ~lastChmod.ok) =>
           "chmod" \in warned[lastChmod.plat] /\ Swallowed(lastChmod.plat)
    /\ patchlog.rpath = "failed" =>
           "rpath" \in warned["macos"] /\ patchlog.change = "ok"

\* C23 (amended): a failed chmod of the staged binary is swallowed without
\* any message: the binary stays staged and the job goes on; the removal of
\* the stale rpath runs only after the rewrite returned 0, and its failure
\* neither ends the run nor keeps package_wheel from being entered; the
\* script prints no warning of its own for either.
C23_HygieneFailureSwallowed ==
    /\ (lastChmod.plat # "none" /\ ~lastChmod.ok) =>
           /\ Swallowed(lastChmod.plat)
           /\ "chmod" \notin warned[lastChmod.plat]
           /\ ~(exited /\ Cur = lastChmod.plat /\ pc = "binary")
    /\ patchlog.rpath # "none" => patchlog.change = "ok"
    /\ patchlog.rpath = "failed" =>
           /\ "rpath" \notin warned["macos"]
           /\ ~(exited /\ pc = "rpath")
           /\ \/ Cur = "macos" /\ pc = "pw_enter" /\ ~exited
              \/ Happened("macos", "assemble")

\* build.py on a macOS host: the rpath removal failed and the macOS wheel was
\* built; the chmod of the linux binary failed and the linux wheel was built
C23_Witness ==
    /\ patchlog = [otool |-> "match", change |-> "ok", rpath |-> "failed"]
    /\ job["macos"] = "built"
    /\ lastChmod = [plat |-> "linux", ok |-> FALSE]
    /\ job["linux"] = "built"

\* C25: a packaging tool or the install of the build package is invoked for
\* a platform only after its compile returned 0, its binary was found and
\* the binary was copied into the staged package; a runtime library is in
\* the staged package only together with the binary and only when the
\* lookup found it.
C25_ToolsOnlyAfterBinaryStaged ==
    \A p \in AllPlatforms :
        /\ chain[p] # <<>> =>
               /\ compiled[p] = "ok"
               /\ binary[p] = "present"
               /\ "binary" \in staged[p]
               /\ phases[p][1] = "compile"
        /\ "lib" \in staged[p] =>
               /\ "binary" \in staged[p]
               /\ lib[p] = "found"

\* a platform whose library was found went through python -m build, the
\* install of the build package and the retry, with binary and library staged
C25_Witness ==
    \E p \in AllPlatforms :
        /\ Len(chain[p]) >= 3
        /\ chain[p][2].tool = "install"
        /\ {"binary", "lib"} \subseteq staged[p]
        /\ lib[p] = "found"

\* C24: parent and child of a run_command call never block on each other:
\* there is no state in which the parent waits in readline() on an empty
\* pipe of the living child while the child waits to write to the other,
\* full pipe; and when run_command has returned or exited, every line the
\* child wrote has been printed.
C24_RunCommandNeverBlocksForever ==
    /\ ~(pipe.state = "run" /\ ParentBlocked /\ ChildBlocked)
    /\ pipe.ppc \in {"returned", "exited"} =>
           /\ ~pipe.alive
           /\ pipe.printed = Len(pipe.prog)

\* C26: in the in-memory counter component the stored count is the number
\* of action_increment calls minus the number of action_decrement calls,
\* each of these two handlers returns the count as it is after its own
\* update, and load_template_context returns the count and leaves it as it
\* was.
C26_CountIsIncrementsMinusDecrements ==
    ctr.state = "run" =>
        /\ ctr.count = ctr.incs - ctr.decs
        /\ ctr.last = "action_increment" =>
               /\ ctr.count = ctr.before + 1
               /\ ctr.result = State(ctr.count)
        /\ ctr.last = "action_decrement" =>
               /\ ctr.count = ctr.before - 1
               /\ ctr.result = State(ctr.count)
        /\ ctr.last = "load_template_context" =>
               /\ ctr.count = ctr.before
               /\ ctr.result = State(ctr.count)

\* increments and decrements have both happened, the last call being an
\* increment made at a negative count
C26_Witness ==
    /\ ctr.state = "run"
    /\ ctr.incs >= 1 /\ ctr.decs >= 2
    /\ ctr.last = "action_increment"
    /\ ctr.before < 0
    /\ ctr.result = State(ctr.count)

\* C27: action_upload of either counter component returns the component
\* state with the current stored count and changes no counter; a handler of
\* the database-backed component called without a connection returns the
\* error result and creates or changes no counter row.
C27_UploadReturnsStateAndNoDbIsError ==
    ctr.state = "run" =>
        /\ ctr.last = "action_upload" =>
               /\ ctr.result = State(ctr.count)
               /\ ctr.count = ctr.before /\ ctr.row = ctr.rowBefore
        /\ ctr.last = "logic.action_upload" =>
               /\ ctr.result.kind = "state"
               /\ ctr.count = ctr.before /\ ctr.row = ctr.rowBefore
        /\ (/\ ctr.last \in {"logic.load_template_context",
                             "logic.action_increment",
                             "logic.action_decrement"}
            /\ ~ctr.db) =>
               /\ ctr.result = ErrorResult
               /\ ctr.row = ctr.rowBefore

====
